---------------------------- MODULE Spec2Model ----------------------------
(***************************************************************************)
(* Convergence diagnostics of rstan/rstan/src/chains.cpp: the effective    *)
(* sample size (effective_sample_size, effective_sample_size2) and the     *)
(* split potential scale reduction (split_potential_scale_reduction,       *)
(* split_potential_scale_reduction2).                                      *)
(*                                                                         *)
(* A double is modelled by the exact rational <<numerator, denominator>>   *)
(* it would hold without rounding, in lowest terms with a positive         *)
(* denominator; the IEEE specials are <<0,0>> (NaN), <<1,0>> (+Infinity)   *)
(* and <<-1,0>> (-Infinity).  sqrt is kept symbolic: a result of kind      *)
(* "sqrt" with value v stands for the double sqrt(v).                      *)
(***************************************************************************)
EXTENDS Integers, Sequences, FiniteSets

(***************************************************************************)
(* Bounds of the model.                                                    *)
(***************************************************************************)
MaxLen == 7        \* longest chain of kept draws in the general family
MaxDrop == 1       \* a second chain is shorter than the first by 0..MaxDrop
NumParams == 1     \* n_flatnames of the simulation record
Warmup == 1        \* warmup2[k]: warmup draws saved in front of the kept ones

Values == {0, 1}   \* the values of a draw in the general family

(***************************************************************************)
(* Exact arithmetic on doubles.                                            *)
(***************************************************************************)
Abs(x) == IF x < 0 THEN -x ELSE x

Sgn(x) == IF x < 0 THEN -1 ELSE IF x > 0 THEN 1 ELSE 0

RECURSIVE Gcd(_, _)
Gcd(a, b) == IF b = 0 THEN a ELSE Gcd(b, a % b)

NaN == <<0, 0>>

Inf(s) == <<s, 0>>

IsNaN(a) == a[1] = 0 /\ a[2] = 0

IsFinite(a) == a[2] # 0

\* n/d in lowest terms, d # 0
Rat(n, d) ==
  LET g == Gcd(Abs(n), Abs(d))
      s == IF d < 0 THEN -1 ELSE 1
  IN  <<s * (n \div g), s * (d \div g)>>

FromInt(i) == <<i, 1>>

RNeg(a) == <<-a[1], a[2]>>

RAdd(a, b) ==
  IF IsFinite(a) /\ IsFinite(b)
  THEN LET g == Gcd(a[2], b[2])
           l == (a[2] \div g) * b[2]
       IN  Rat(a[1] * (l \div a[2]) + b[1] * (l \div b[2]), l)
  ELSE IF IsNaN(a) \/ IsNaN(b) THEN NaN
  ELSE IF ~IsFinite(a) /\ ~IsFinite(b) /\ a[1] # b[1] THEN NaN
  ELSE IF ~IsFinite(a) THEN a ELSE b

RSub(a, b) == RAdd(a, RNeg(b))

RMul(a, b) ==
  IF IsFinite(a) /\ IsFinite(b)
  THEN LET g1 == Gcd(Abs(a[1]), b[2])
           g2 == Gcd(Abs(b[1]), a[2])
       IN  <<(a[1] \div g1) * (b[1] \div g2), (a[2] \div g2) * (b[2] \div g1)>>
  ELSE IF IsNaN(a) \/ IsNaN(b) \/ a[1] = 0 \/ b[1] = 0 THEN NaN
  ELSE Inf(Sgn(a[1]) * Sgn(b[1]))

\* IEEE division: x/0 is NaN for x = 0 and an infinity otherwise
RDiv(a, b) ==
  IF IsNaN(a) \/ IsNaN(b) THEN NaN
  ELSE IF ~IsFinite(b) THEN (IF IsFinite(a) THEN FromInt(0) ELSE NaN)
  ELSE IF b[1] = 0 THEN (IF a[1] = 0 THEN NaN ELSE Inf(Sgn(a[1])))
  ELSE IF ~IsFinite(a) THEN Inf(Sgn(a[1]) * Sgn(b[1]))
  ELSE RMul(a, Rat(b[2], b[1]))

\* comparisons; every comparison with NaN is false
RLe(a, b) ==
  /\ ~IsNaN(a) /\ ~IsNaN(b)
  /\ IF IsFinite(a) /\ IsFinite(b)
     THEN LET g == Gcd(a[2], b[2]) IN a[1] * (b[2] \div g) <= b[1] * (a[2] \div g)
     ELSE IF ~IsFinite(a) /\ ~IsFinite(b) THEN a[1] <= b[1]
     ELSE IF ~IsFinite(a) THEN a[1] < 0 ELSE b[1] > 0

RLt(a, b) == RLe(a, b) /\ a # b

RGe(a, b) == RLe(b, a)

RGt(a, b) == RLt(b, a)

Zero == FromInt(0)

One == FromInt(1)

RECURSIVE SumTo(_, _)
SumTo(s, k) == IF k = 0 THEN 0 ELSE SumTo(s, k - 1) + s[k]

IntSum(s) == SumTo(s, Len(s))

RECURSIVE RSumTo(_, _)
RSumTo(s, k) == IF k = 0 THEN Zero ELSE RAdd(RSumTo(s, k - 1), s[k])

\* stan::math::sum of a vector of doubles
RSum(s) == RSumTo(s, Len(s))

\* stan::math::mean of a vector of doubles
RMean(s) == RDiv(RSum(s), FromInt(Len(s)))

\* stan::math::variance: the sample variance (divide by size - 1), 0 for size 1
RVariance(s) ==
  IF Len(s) = 1 THEN Zero
  ELSE LET m == RMean(s)
           sq == [i \in 1..Len(s) |-> RMul(RSub(s[i], m), RSub(s[i], m))]
       IN  RDiv(RSum(sq), FromInt(Len(s) - 1))

\* a vector of draws as doubles
AsReal(x) == [i \in 1..Len(x) |-> FromInt(x[i])]

\* stan::math::autocovariance: lag t (0-based) is the sum over the valid
\* offsets of (x[i] - mean)(x[i+t] - mean), divided by N
Autocovariance(x) ==
  LET N == Len(x)
      S == IntSum(x)
      num(tt) == IntSum([i \in 1..(N - tt) |-> (N * x[i] - S) * (N * x[i + tt] - S)])
  IN  [lag \in 1..N |-> Rat(num(lag - 1), N * N * N)]


(***************************************************************************)
(* The inputs.  A chain is its kept (post-warmup) draws; a chain set is    *)
(* one chain per run.                                                      *)
(***************************************************************************)
Chains(L) == [1..L -> Values]

Singles == UNION {Chains(L) : L \in 2..MaxLen}

\* the draws of a run stuck at another location: every draw moved up by one
Shift(c) == [i \in 1..Len(c) |-> c[i] + 1]

\* a second run of the same sampler that kept d draws fewer
Companion(c, d) == Shift(SubSeq(c, 1, Len(c) - d))

Pairs == {<<c, Companion(c, d)>> : c \in Singles, d \in 0..MaxDrop} \ {<<c, Companion(c, d)>> : c \in Chains(2), d \in 1..MaxDrop}

\* the single trending chain of the concrete scenario, and a chain whose
\* lag-1 autocorrelation is strongly negative
ScenarioChains == {<<1, 2, 3, 4, 5, 6, 7, 8>>, <<0, 2, 0, 1, 2, 0, 2, 1>>}

ChainSets == {<<c>> : c \in Singles \cup ScenarioChains} \cup Pairs

\* chain sets whose minimum kept count is 1: a run that kept a single draw, alone
\* or beside a run that kept three
ShortChainSets ==
  {<<c>> : c \in Chains(1)} \cup {<<c, Shift(d)>> : c \in Chains(1), d \in Chains(3)}

IsRectangular(cs) == \A k \in 1..Len(cs) : Len(cs[k]) = Len(cs[1])

\* the matrices of effective_sample_size2 and split_potential_scale_reduction2:
\* one column per chain, n_samples rows
Matrices == {cs \in ChainSets : IsRectangular(cs)}

\* the simulation record of a chain set: each chain saves Warmup warmup draws
\* followed by its kept draws; samples[k] is the saved vector of the requested
\* parameter in chain k
MkSim(cs) ==
  [chains |-> Len(cs),
   n_flatnames |-> NumParams,
   n_save |-> [k \in 1..Len(cs) |-> Warmup + Len(cs[k])],
   warmup2 |-> [k \in 1..Len(cs) |-> Warmup],
   samples |-> [k \in 1..Len(cs) |-> [i \in 1..Warmup |-> i] \o cs[k]]]

NoSim == [chains |-> 0, n_flatnames |-> 0, n_save |-> <<>>, warmup2 |-> <<>>, samples |-> <<>>]

Entries == {"effective_sample_size", "effective_sample_size2",
            "split_potential_scale_reduction", "split_potential_scale_reduction2"}

\* the parameter indexes requested: the last valid one and the first invalid one
ParamIdx == {NumParams - 1, NumParams}

NoResult == [kind |-> "none", val |-> Zero]

VARIABLES
  entry,             \* the entry point called
  sim,               \* its simulation record (metadata-driven entry points)
  sims,              \* its matrix, as columns (matrix entry points)
  n,                 \* the parameter index n_
  pc,                \* position in the entry point
  extracted,         \* calls made that read the samples of a chain
  n_samples,
  acov,
  mean_var,
  var_plus,
  rho_hat_t,
  rho_hat_even,
  rho_hat_odd,
  rho_hat,
  max_t,
  t,
  chain,
  split_idx,         \* per split chain, the 0-based indexes of the draws it holds
  split_chain_mean,
  split_chain_var,
  var_between,
  var_within,
  result

vars == <<entry, sim, sims, n, pc, extracted, n_samples, acov, mean_var, var_plus,
          rho_hat_t, rho_hat_even, rho_hat_odd, rho_hat, max_t, t, chain, split_idx,
          split_chain_mean, split_chain_var, var_between, var_within, result>>

essVars == <<acov, mean_var, var_plus, rho_hat_t, rho_hat_even, rho_hat_odd, rho_hat, max_t, t>>

splitVars == <<chain, split_idx, split_chain_mean, split_chain_var, var_between, var_within>>

inputVars == <<entry, sim, sims, n>>

Locals0 ==
  /\ pc = "start"
  /\ extracted = 0
  /\ n_samples = 0
  /\ acov = <<>>
  /\ mean_var = Zero
  /\ var_plus = Zero
  /\ rho_hat_t = <<>>
  /\ rho_hat_even = Zero
  /\ rho_hat_odd = Zero
  /\ rho_hat = Zero
  /\ max_t = 0
  /\ t = 0
  /\ chain = 0
  /\ split_idx = <<>>
  /\ split_chain_mean = <<>>
  /\ split_chain_var = <<>>
  /\ var_between = Zero
  /\ var_within = Zero
  /\ result = NoResult

InitSim ==
  /\ entry \in {"effective_sample_size", "split_potential_scale_reduction"}
  /\ \E cs \in ChainSets \cup (IF entry = "effective_sample_size" THEN ShortChainSets ELSE {}) :
       sim = MkSim(cs)
  /\ sims = <<>>
  /\ n \in ParamIdx

InitMatrix ==
  /\ entry \in {"effective_sample_size2", "split_potential_scale_reduction2"}
  /\ sim = NoSim
  /\ sims \in Matrices
  /\ n = 0

Init == (InitSim \/ InitMatrix) /\ Locals0

(***************************************************************************)
(* Accessors of the simulation record.                                     *)
(***************************************************************************)
num_chains(s) == s.chains

num_params(s) == s.n_flatnames

\* TRUE when validate_param_idx returns, FALSE when it throws std::out_of_range
validate_param_idx(s, i) == i < num_params(s)

\* TRUE when validate_chain_idx returns (k is 0-based)
validate_chain_idx(s, k) == k < num_chains(s)

\* samples.assign(warmup2[k] + nv.begin(), nv.end()); k is 0-based
get_kept_samples(s, k) ==
  SubSeq(s.samples[k + 1], s.warmup2[k + 1] + 1, Len(s.samples[k + 1]))

\* the mean over nv[warmup2[k]] .. nv[n_save[k] - 1]
get_chain_mean(s, k) ==
  RMean(AsReal(SubSeq(s.samples[k + 1], s.warmup2[k + 1] + 1, s.n_save[k + 1])))

\* ns_kept[i] = ns_save[i] - ns_warmup2[i]
NsKept(s) == [i \in 1..Len(s.n_save) |-> s.n_save[i] - s.warmup2[i]]

RECURSIVE MinTo(_, _)
MinTo(v, k) ==
  IF k = 1 THEN v[1]
  ELSE LET m == MinTo(v, k - 1) IN IF v[k] < m THEN v[k] ELSE m

\* n_samples = ns_kept[0]; then the minimum with every later chain
MinKept(s) == MinTo(NsKept(s), num_chains(s))

\* element i (0-based) of a vector
At(v, i) == v[i + 1]

Put(v, i, x) == [v EXCEPT ![i + 1] = x]

\* index i (0-based) is an element of the vector; operator[] does not test it
InBounds(v, i) == 0 <= i /\ i < Len(v)

\* 1 - (mean_var - mean(acov_t)) / var_plus with acov_t[chain] = acov[chain][lag]
RhoHat(ac, mv, vp, lag) ==
  LET acov_t == [c \in 1..Len(ac) |-> At(ac[c], lag)]
  IN  RSub(One, RDiv(RSub(mv, RMean(acov_t)), vp))

\* mutant of BelowUnsigned: the loop is let run one lag further
BelowUnsigned_OneMore(tt, ns) == IF ns < 2 THEN TRUE ELSE tt < ns - 1

\* t < (n_samples - 2), an unsigned comparison: n_samples - 2 wraps around to a
\* huge value for n_samples < 2
BelowUnsigned(tt, ns) == IF ns < 2 THEN TRUE ELSE tt < ns - 2

Done(r) ==
  /\ pc' = "done"
  /\ result' = r

\* what an access beyond the end of a vector or list gives: the access is not
\* tested, so the host either stops the call with an error of its own or the
\* call goes on with whatever lies there
OutOfBoundsRead == {"host_error", "undefined"}

(***************************************************************************)
(* effective_sample_size(sim, n_)                                          *)
(***************************************************************************)
\* lines 306-359: validation, autocovariances, the variances, rho_hat_t[1]
ESS_Begin ==
  /\ pc = "start"
  /\ entry = "effective_sample_size"
  /\ IF ~validate_param_idx(sim, n)
     THEN /\ Done([kind |-> "out_of_range", val |-> Zero])
          /\ UNCHANGED <<inputVars, extracted, n_samples, essVars, splitVars>>
     ELSE LET m == num_chains(sim)
              ns_kept == NsKept(sim)
              ns == MinKept(sim)
              ac == [c \in 1..m |-> Autocovariance(get_kept_samples(sim, c - 1))]
              chain_mean == [c \in 1..m |-> get_chain_mean(sim, c - 1)]
              chain_var == [c \in 1..m |->
                              RDiv(RMul(At(ac[c], 0), FromInt(ns_kept[c])),
                                   FromInt(ns_kept[c] - 1))]
              mv == RMean(chain_var)
              vp0 == RDiv(RMul(mv, FromInt(ns - 1)), FromInt(ns))
              vp == IF m > 1 THEN RAdd(vp0, RVariance(chain_mean)) ELSE vp0
              odd == RhoHat(ac, mv, vp, 1)
          IN  IF ~(InBounds([i \in 1..ns |-> Zero], 1) /\ \A c \in 1..m : InBounds(ac[c], 1))
              THEN \* acov[chain][1] or rho_hat_t[1] lies beyond the end
                   /\ \E o \in OutOfBoundsRead : Done([kind |-> o, val |-> Zero])
                   /\ n_samples' = ns
                   /\ extracted' = extracted + 2 * m
                   /\ UNCHANGED <<inputVars, essVars, splitVars>>
              ELSE
              /\ n_samples' = ns
              /\ acov' = ac
              /\ mean_var' = mv
              /\ var_plus' = vp
              /\ rho_hat_even' = One
              /\ rho_hat_odd' = odd
              /\ rho_hat_t' = Put([i \in 1..ns |-> Zero], 1, odd)
              /\ max_t' = 1
              /\ t' = 1
              /\ extracted' = extracted + 2 * m
              /\ pc' = "positive"
              /\ UNCHANGED <<inputVars, rho_hat, splitVars, result>>

\* the test of Geyer's initial positive sequence loop (line 361)
PositiveTest == BelowUnsigned(t, n_samples) /\ RGe(RAdd(rho_hat_even, rho_hat_odd), Zero)

\* mutant of ESS_PositiveStep: the pair is stored whatever its sum
ESS_PositiveStep_StoreAlways ==
  /\ pc = "positive"
  /\ PositiveTest
  /\ LET even == RhoHat(acov, mean_var, var_plus, t + 1)
         odd == RhoHat(acov, mean_var, var_plus, t + 2)
     IN  /\ rho_hat_even' = even
         /\ rho_hat_odd' = odd
         /\ rho_hat_t' = Put(Put(rho_hat_t, t + 1, even), t + 2, odd)
         /\ max_t' = t + 2
         /\ t' = t + 2
  /\ UNCHANGED <<inputVars, pc, extracted, n_samples, acov, mean_var, var_plus,
                 rho_hat, splitVars, result>>

\* the accesses of one iteration of the initial positive sequence loop are
\* inside their vectors: acov[chain][t + 1], acov[chain][t + 2] and, when the
\* pair is stored, rho_hat_t[t + 1], rho_hat_t[t + 2]
PositiveInBounds ==
  /\ \A c \in 1..Len(acov) : InBounds(acov[c], t + 1) /\ InBounds(acov[c], t + 2)
  /\ RGe(RAdd(RhoHat(acov, mean_var, var_plus, t + 1),
              RhoHat(acov, mean_var, var_plus, t + 2)), Zero)
       => (InBounds(rho_hat_t, t + 1) /\ InBounds(rho_hat_t, t + 2))

\* lines 363-373: one iteration of the initial positive sequence loop
ESS_PositiveStep ==
  /\ pc = "positive"
  /\ PositiveTest
  /\ IF PositiveInBounds
     THEN LET even == RhoHat(acov, mean_var, var_plus, t + 1)
              odd == RhoHat(acov, mean_var, var_plus, t + 2)
          IN  /\ rho_hat_even' = even
              /\ rho_hat_odd' = odd
              /\ rho_hat_t' = IF RGe(RAdd(even, odd), Zero)
                              THEN Put(Put(rho_hat_t, t + 1, even), t + 2, odd)
                              ELSE rho_hat_t
              /\ max_t' = t + 2
              /\ t' = t + 2
              /\ UNCHANGED <<pc, result>>
     ELSE /\ \E o \in OutOfBoundsRead : Done([kind |-> o, val |-> Zero])
          /\ UNCHANGED <<rho_hat_even, rho_hat_odd, rho_hat_t, max_t, t>>
  /\ UNCHANGED <<inputVars, extracted, n_samples, acov, mean_var, var_plus,
                 rho_hat, splitVars>>

\* the loop's test fails: on to the initial monotone sequence (line 377)
ESS_PositiveExit ==
  /\ pc = "positive"
  /\ ~PositiveTest
  /\ pc' = "monotone"
  /\ t' = 3
  /\ UNCHANGED <<inputVars, extracted, n_samples, acov, mean_var, var_plus, rho_hat_t,
                 rho_hat_even, rho_hat_odd, rho_hat, max_t, splitVars, result>>

\* mutant of ESS_MonotoneStep: the comparison is turned around
ESS_MonotoneStep_Reversed ==
  /\ pc = "monotone"
  /\ t <= max_t - 2
  /\ LET prev == RAdd(At(rho_hat_t, t - 1), At(rho_hat_t, t))
         half == RDiv(prev, FromInt(2))
     IN  rho_hat_t' = IF RLt(RAdd(At(rho_hat_t, t + 1), At(rho_hat_t, t + 2)), prev)
                      THEN Put(Put(rho_hat_t, t + 1, half), t + 2, half)
                      ELSE rho_hat_t
  /\ t' = t + 2
  /\ UNCHANGED <<inputVars, pc, extracted, n_samples, acov, mean_var, var_plus,
                 rho_hat_even, rho_hat_odd, rho_hat, max_t, splitVars, result>>

\* the accesses of one iteration of the initial monotone sequence loop are
\* inside rho_hat_t: the indexes t - 1 .. t + 2
MonotoneInBounds == \A i \in (t - 1)..(t + 2) : InBounds(rho_hat_t, i)

\* lines 378-381: one iteration of the initial monotone sequence loop
ESS_MonotoneStep ==
  /\ pc = "monotone"
  /\ t <= max_t - 2
  /\ IF MonotoneInBounds
     THEN LET prev == RAdd(At(rho_hat_t, t - 1), At(rho_hat_t, t))
              half == RDiv(prev, FromInt(2))
          IN  /\ rho_hat_t' = IF RGt(RAdd(At(rho_hat_t, t + 1), At(rho_hat_t, t + 2)), prev)
                              THEN Put(Put(rho_hat_t, t + 1, half), t + 2, half)
                              ELSE rho_hat_t
              /\ t' = t + 2
              /\ UNCHANGED <<pc, result>>
     ELSE /\ \E o \in OutOfBoundsRead : Done([kind |-> o, val |-> Zero])
          /\ UNCHANGED <<rho_hat_t, t>>
  /\ UNCHANGED <<inputVars, extracted, n_samples, acov, mean_var, var_plus,
                 rho_hat_even, rho_hat_odd, rho_hat, max_t, splitVars>>

\* lines 384-389: ess = m*n_samples / (1 + 2 * sum(rho_hat_t))
ESS_Finish ==
  /\ pc = "monotone"
  /\ ~(t <= max_t - 2)
  /\ Done([kind |-> "value",
           val |-> RDiv(FromInt(num_chains(sim) * n_samples),
                        RAdd(One, RMul(FromInt(2), RSum(rho_hat_t))))])
  /\ UNCHANGED <<inputVars, extracted, n_samples, essVars, splitVars>>

(***************************************************************************)
(* effective_sample_size2(sims)                                            *)
(***************************************************************************)
\* lines 420-445: autocovariances, the variances, the empty rho_hat_t
ESS2_Begin ==
  /\ pc = "start"
  /\ entry = "effective_sample_size2"
  /\ LET m == Len(sims)
         ns == Len(sims[1])
         ac == [c \in 1..m |-> Autocovariance(sims[c])]
         chain_mean == [c \in 1..m |-> RMean(AsReal(sims[c]))]
         chain_var == [c \in 1..m |->
                         RDiv(RMul(At(ac[c], 0), FromInt(ns)), FromInt(ns - 1))]
         mv == RMean(chain_var)
         vp0 == RDiv(RMul(mv, FromInt(ns - 1)), FromInt(ns))
         vp == IF m > 1 THEN RAdd(vp0, RVariance(chain_mean)) ELSE vp0
     IN  /\ n_samples' = ns
         /\ acov' = ac
         /\ mean_var' = mv
         /\ var_plus' = vp
         /\ rho_hat_t' = <<>>
         /\ rho_hat' = Zero
         /\ t' = 1
         /\ extracted' = extracted + m
  /\ pc' = "scan"
  /\ UNCHANGED <<inputVars, rho_hat_even, rho_hat_odd, max_t, splitVars, result>>

\* mutant of ScanTest: the scan does not stop at a negative value
ScanTest_NoSignCheck == t < n_samples

\* the test of the scan over the lags (line 446)
ScanTest == t < n_samples /\ RGe(rho_hat, Zero)

\* mutant of ESS2_Step: a negative value is stored too
ESS2_Step_StoreAlways ==
  /\ pc = "scan"
  /\ ScanTest
  /\ LET r == RhoHat(acov, mean_var, var_plus, t)
     IN  /\ rho_hat' = r
         /\ rho_hat_t' = Append(rho_hat_t, r)
  /\ t' = t + 1
  /\ UNCHANGED <<inputVars, pc, extracted, n_samples, acov, mean_var, var_plus,
                 rho_hat_even, rho_hat_odd, max_t, splitVars, result>>

\* lines 447-453: one iteration of the scan
ESS2_Step ==
  /\ pc = "scan"
  /\ ScanTest
  /\ LET r == RhoHat(acov, mean_var, var_plus, t)
     IN  /\ rho_hat' = r
         /\ rho_hat_t' = IF RGe(r, Zero) THEN Append(rho_hat_t, r) ELSE rho_hat_t
  /\ t' = t + 1
  /\ UNCHANGED <<inputVars, pc, extracted, n_samples, acov, mean_var, var_plus,
                 rho_hat_even, rho_hat_odd, max_t, splitVars, result>>

\* lines 456-463: ess = m*n_samples, divided by 1 + 2 * sum(rho_hat_t) when a
\* value was stored
ESS2_Finish ==
  /\ pc = "scan"
  /\ ~ScanTest
  /\ LET ess == FromInt(Len(sims) * n_samples)
     IN  Done([kind |-> "value",
               val |-> IF Len(rho_hat_t) > 0
                       THEN RDiv(ess, RAdd(One, RMul(FromInt(2), RSum(rho_hat_t))))
                       ELSE ess])
  /\ UNCHANGED <<inputVars, extracted, n_samples, essVars, splitVars>>

(***************************************************************************)
(* The split chains.                                                       *)
(***************************************************************************)
\* if (n_samples % 2 == 1) n_samples--;
EvenCount(ns) == IF ns % 2 = 1 THEN ns - 1 ELSE ns

\* the draws [lo, hi) (0-based) that a split chain is assigned:
\* [samples.begin(), samples.begin() + n_samples/2)
FirstHalf(len, ns) == <<0, ns \div 2>>

\* mutant of SecondHalf: the second half starts right after the first
SecondHalf_AfterFirstHalf(len, ns) == <<ns \div 2, 2 * (ns \div 2)>>

\* [samples.end() - n_samples/2, samples.end())
SecondHalf(len, ns) == <<len - ns \div 2, len>>

Slice(samples, r) == SubSeq(samples, r[1] + 1, r[2])

\* the body of the loop over the chains: both halves of `samples`, their means
\* and their variances
SplitChain(samples) ==
  LET a == FirstHalf(Len(samples), n_samples)
      b == SecondHalf(Len(samples), n_samples)
      x == AsReal(Slice(samples, a))
      y == AsReal(Slice(samples, b))
  IN  /\ split_idx' = split_idx \o <<a, b>>
      /\ split_chain_mean' = split_chain_mean \o <<RMean(x), RMean(y)>>
      /\ split_chain_var' = split_chain_var \o <<RVariance(x), RVariance(y)>>
      /\ chain' = chain + 1
      /\ extracted' = extracted + 1

\* mutant of SplitFinish: the "- 1" of the rewritten formula is lost
SplitFinish_NoMinusOne ==
  LET h == FromInt(n_samples \div 2)
      B == RMul(h, RVariance(split_chain_mean))
      W == RMean(split_chain_var)
  IN  /\ var_between' = B
      /\ var_within' = W
      /\ Done([kind |-> "sqrt", val |-> RDiv(RAdd(RDiv(B, W), h), h)])

\* mutant of SplitFinish: var_between scaled by n_samples, not n_samples/2
SplitFinish_FullCount ==
  LET h == FromInt(n_samples \div 2)
      B == RMul(FromInt(n_samples), RVariance(split_chain_mean))
      W == RMean(split_chain_var)
  IN  /\ var_between' = B
      /\ var_within' = W
      /\ Done([kind |-> "sqrt",
               val |-> RDiv(RSub(RAdd(RDiv(B, W), h), One), h)])

\* var_between, var_within and
\* srhat = sqrt((var_between/var_within + n_samples/2 - 1)/(n_samples/2))
SplitFinish ==
  LET h == FromInt(n_samples \div 2)
      B == RMul(h, RVariance(split_chain_mean))
      W == RMean(split_chain_var)
  IN  /\ var_between' = B
      /\ var_within' = W
      /\ Done([kind |-> "sqrt",
               val |-> RDiv(RSub(RAdd(RDiv(B, W), h), One), h)])

(***************************************************************************)
(* split_potential_scale_reduction2(sims_)                                 *)
(***************************************************************************)
\* lines 479-486
Rhat2_Begin ==
  /\ pc = "start"
  /\ entry = "split_potential_scale_reduction2"
  /\ n_samples' = EvenCount(Len(sims[1]))
  /\ chain' = 0
  /\ pc' = "split"
  /\ UNCHANGED <<inputVars, extracted, essVars, split_idx, split_chain_mean,
                 split_chain_var, var_between, var_within, result>>

\* lines 488-499: one iteration of the loop over the columns
Rhat2_SplitChain ==
  /\ pc = "split"
  /\ entry = "split_potential_scale_reduction2"
  /\ chain < Len(sims)
  /\ SplitChain(sims[chain + 1])
  /\ UNCHANGED <<inputVars, pc, n_samples, essVars, var_between, var_within, result>>

\* lines 501-510
Rhat2_Finish ==
  /\ pc = "split"
  /\ entry = "split_potential_scale_reduction2"
  /\ ~(chain < Len(sims))
  /\ SplitFinish
  /\ UNCHANGED <<inputVars, extracted, n_samples, essVars, chain, split_idx,
                 split_chain_mean, split_chain_var>>

(***************************************************************************)
(* split_potential_scale_reduction(sim, n_)                                *)
(***************************************************************************)
\* lines 528-554: the kept counts and their minimum; n_ is not validated
Rhat_Begin ==
  /\ pc = "start"
  /\ entry = "split_potential_scale_reduction"
  /\ n_samples' = EvenCount(MinKept(sim))
  /\ chain' = 0
  /\ pc' = "split"
  /\ UNCHANGED <<inputVars, extracted, essVars, split_idx, split_chain_mean,
                 split_chain_var, var_between, var_within, result>>

\* lines 556-571: one iteration of the loop over the chains; the chain's list
\* of parameters has n_flatnames elements
Rhat_SplitChain ==
  /\ pc = "split"
  /\ entry = "split_potential_scale_reduction"
  /\ chain < num_chains(sim)
  /\ IF n < num_params(sim)
     THEN /\ SplitChain(get_kept_samples(sim, chain))
          /\ UNCHANGED <<pc, result>>
     ELSE /\ \E o \in OutOfBoundsRead : Done([kind |-> o, val |-> Zero])
          /\ extracted' = extracted + 1
          /\ UNCHANGED <<chain, split_idx, split_chain_mean, split_chain_var>>
  /\ UNCHANGED <<inputVars, n_samples, essVars, var_between, var_within>>

\* lines 573-581
Rhat_Finish ==
  /\ pc = "split"
  /\ entry = "split_potential_scale_reduction"
  /\ ~(chain < num_chains(sim))
  /\ SplitFinish
  /\ UNCHANGED <<inputVars, extracted, n_samples, essVars, chain, split_idx,
                 split_chain_mean, split_chain_var>>

Next ==
  \/ ESS_Begin \/ ESS_PositiveStep \/ ESS_PositiveExit \/ ESS_MonotoneStep \/ ESS_Finish
  \/ ESS2_Begin \/ ESS2_Step \/ ESS2_Finish
  \/ Rhat2_Begin \/ Rhat2_SplitChain \/ Rhat2_Finish
  \/ Rhat_Begin \/ Rhat_SplitChain \/ Rhat_Finish

Spec == Init /\ [][Next]_vars

(***************************************************************************)
(* What the properties below speak of.                                     *)
(***************************************************************************)
IsMatrixEntry == entry \in {"effective_sample_size2", "split_potential_scale_reduction2"}

IsSplitEntry == entry \in {"split_potential_scale_reduction", "split_potential_scale_reduction2"}

NChains == IF IsMatrixEntry THEN Len(sims) ELSE sim.chains

\* the kept draws of chain k (1-based), as the caller supplied them
Kept(k) == IF IsMatrixEntry THEN sims[k] ELSE SubSeq(sim.samples[k], Warmup + 1, Len(sim.samples[k]))

MinLength == CHOOSE l \in {Len(Kept(k)) : k \in 1..NChains} : \A k \in 1..NChains : l <= Len(Kept(k))

\* the parameter index is one validate_param_idx accepts
IndexValid == IsMatrixEntry \/ n < sim.n_flatnames

AllDrawsEqual == \A k \in 1..NChains : \A i \in 1..Len(Kept(k)) : Kept(k)[i] = Kept(1)[1]

\* C1 (as stated): the halves of every chain are draws 0..n/2-1 and
\* n/2..2*(n/2)-1, so that for an odd length the final draw is the one dropped.
C1_FinalDrawDropped ==
  \A i \in 1..Len(split_idx) :
    LET h == MinLength \div 2
    IN  split_idx[i] = IF i % 2 = 1 THEN <<0, h>> ELSE <<h, 2 * h>>

\* C1 (amended): with h = n/2 for the minimum kept count n, the halves of a
\* chain of len draws are its first h draws, 0..h-1, and its last h draws,
\* len-h..len-1: two contiguous blocks of h draws each.  In a matrix of odd
\* length the draw left out is the middle one, index h, and the final draw is
\* always in the second half.
C1_FirstAndLastHalf ==
  \A i \in 1..Len(split_idx) :
    LET h == MinLength \div 2
        k == (i + 1) \div 2
        len == Len(Kept(k))
        Idx(r) == r[1]..(r[2] - 1)
    IN  /\ split_idx[i] = IF i % 2 = 1 THEN <<0, h>> ELSE <<len - h, len>>
        /\ Cardinality(Idx(split_idx[i])) = h
        /\ (i % 2 = 0 /\ h > 0) => (len - 1) \in Idx(split_idx[i])
        /\ (i % 2 = 0 /\ IsMatrixEntry /\ len % 2 = 1) =>
             (0..(len - 1)) \ (Idx(split_idx[i - 1]) \cup Idx(split_idx[i])) = {h}

\* C1 witness: a matrix of 7 rows was split into draws 0..2 and 4..6
C1_OddLengthSplit ==
  /\ pc = "done"
  /\ entry = "split_potential_scale_reduction2"
  /\ Len(sims[1]) = 7
  /\ split_idx[1] = <<0, 3>>
  /\ split_idx[2] = <<4, 7>>

\* C2: when every draw of every chain has the same value, the split R-hat
\* computation ends by signalling a DegenerateVariance failure, not by
\* returning the NaN or Infinity of the division by var_within.
C2_DegenerateSignalled ==
  (pc = "done" /\ IsSplitEntry /\ IndexValid /\ AllDrawsEqual)
    => result.kind = "degenerate_variance"

\* C3 (as stated): with var_within > 0, a split R-hat of exactly 1 is returned
\* only when var_between = 0.
C3_OneOnlyWithoutBetween ==
  (pc = "done" /\ result.kind = "sqrt" /\ RGt(var_within, Zero) /\ result.val = One)
    => var_between = Zero

\* C3 (amended): with var_within > 0, the split R-hat is exactly 1 when and
\* only when var_between = var_within, so var_between > 0 then; with
\* var_between = 0 the result is sqrt((h - 1)/h) for h = n_samples/2, below 1.
C3_OneIffBetweenEqualsWithin ==
  (pc = "done" /\ result.kind = "sqrt" /\ RGt(var_within, Zero))
    => /\ (result.val = One) <=> (var_between = var_within)
       /\ (result.val = One) => RGt(var_between, Zero)
       /\ (var_between = Zero) =>
            /\ result.val = Rat(n_samples \div 2 - 1, n_samples \div 2)
            /\ RLt(result.val, One)

\* C3 witness: a split R-hat of 1 with a positive between-chain variance
C3_OneWithBetween ==
  /\ pc = "done"
  /\ result.kind = "sqrt"
  /\ result.val = One
  /\ RGt(var_within, Zero)
  /\ RGt(var_between, Zero)

\* C4: a parameter index that is not below n_flatnames is rejected with an
\* out-of-range error by effective_sample_size and by
\* split_potential_scale_reduction before any sample is extracted.
C4_IndexRejected ==
  (~IsMatrixEntry /\ ~IndexValid)
    => /\ extracted = 0
       /\ pc = "done" => result.kind = "out_of_range"

\* C5: when every chain has at least 3 kept draws and var_plus > 0,
\* effective_sample_size returns a finite positive value.
C5_EssFinitePositive ==
  (/\ pc = "done"
   /\ entry = "effective_sample_size"
   /\ result.kind = "value"
   /\ \A k \in 1..NChains : Len(Kept(k)) >= 3
   /\ RGt(var_plus, Zero))
    => (IsFinite(result.val) /\ RGt(result.val, Zero))

\* C6: for the single chain 1,2,...,8 split R-hat uses the halves 1,2,3,4 and
\* 5,6,7,8, var_within = 5/3, var_between = 32, and returns sqrt(5.55).
C6_TrendingChain ==
  (pc = "done" /\ entry = "split_potential_scale_reduction2"
     /\ sims = <<<<1, 2, 3, 4, 5, 6, 7, 8>>>>)
    => /\ Slice(sims[1], split_idx[1]) = <<1, 2, 3, 4>>
       /\ Slice(sims[1], split_idx[2]) = <<5, 6, 7, 8>>
       /\ var_within = <<5, 3>>
       /\ var_between = <<32, 1>>
       /\ result = [kind |-> "sqrt", val |-> <<111, 20>>]

\* C6 witness: the scenario's call has returned sqrt(111/20)
C6_TrendingChainDone ==
  /\ pc = "done"
  /\ entry = "split_potential_scale_reduction2"
  /\ sims = <<<<1, 2, 3, 4, 5, 6, 7, 8>>>>
  /\ result.val = <<111, 20>>

\* effective_sample_size is past its validation, with doubles that are numbers
InEss == entry = "effective_sample_size" /\ pc \in {"positive", "monotone", "done"} /\ RGt(var_plus, Zero)

\* the pair computed last by the initial positive loop has a negative sum
NegativePair == InEss /\ max_t >= 3 /\ RLt(RAdd(rho_hat_even, rho_hat_odd), Zero)

\* rho_hat of a lag, from the autocovariances
Rho(lag) == RhoHat(acov, mean_var, var_plus, lag)

\* C7: in the initial positive loop a pair is stored only if its sum is >= 0;
\* once a pair with a negative sum is computed, that pair and every higher lag
\* stay 0 in rho_hat_t, the loop halts at its next test, and max_t is the
\* highest lag that was computed (stored or not).
C7_InitialPositive ==
  InEss =>
    /\ pc = "positive" => max_t = t
    /\ rho_hat_odd = Rho(max_t)
    /\ max_t >= 3 => rho_hat_even = Rho(max_t - 1)
    /\ \A lag \in (max_t + 1)..(n_samples - 1) : At(rho_hat_t, lag) = Zero
    /\ NegativePair =>
         /\ At(rho_hat_t, max_t - 1) = Zero
         /\ At(rho_hat_t, max_t) = Zero
         /\ ~ENABLED ESS_PositiveStep
    /\ (pc = "positive" /\ max_t >= 3 /\ ~NegativePair) =>
         /\ At(rho_hat_t, max_t - 1) = rho_hat_even
         /\ At(rho_hat_t, max_t) = rho_hat_odd

\* C7 witness: a stored pair (lags 2,3) was followed by a pair of negative sum
\* (lags 4,5), and the call has returned with a higher lag left at 0
C7_NegativeAfterStored ==
  /\ NegativePair
  /\ pc = "done"
  /\ max_t = 5
  /\ n_samples > 6
  /\ RGe(RAdd(Rho(2), Rho(3)), Zero)
  /\ At(rho_hat_t, 6) = Zero

\* the sum of the pair of lags 2j, 2j+1 in rho_hat_t
PairSum(j) == RAdd(At(rho_hat_t, 2 * j), At(rho_hat_t, 2 * j + 1))

\* C8 (as stated): after the initial monotone pass every pair's sum, up to
\* max_t, is <= the sum of the pair before it, the first computed pair
\* (lags 2,3) against the initial pair 1 + rho_hat[1] included.
C8_MonotoneFromInitialPair ==
  (InEss /\ pc = "done") =>
    \A j \in 1..((max_t - 1) \div 2) :
      RLe(PairSum(j), IF j = 1 THEN RAdd(One, At(rho_hat_t, 1)) ELSE PairSum(j - 1))

\* C8 (amended): after the initial monotone pass every pair's sum from lags
\* 4,5 up to max_t is <= the sum of the pair before it; the first computed
\* pair (lags 2,3) is compared with nothing.
C8_MonotoneFromSecondPair ==
  (InEss /\ pc = "done") =>
    \A j \in 2..((max_t - 1) \div 2) : RLe(PairSum(j), PairSum(j - 1))

\* C8 witness: the pair of lags 4,5 was computed above the pair of lags 2,3 and
\* has been clamped to that pair's average
C8_Clamped ==
  /\ InEss
  /\ pc = "done"
  /\ max_t >= 5
  /\ RGt(RAdd(Rho(4), Rho(5)), RAdd(Rho(2), Rho(3)))
  /\ At(rho_hat_t, 4) = RDiv(PairSum(1), FromInt(2))
  /\ At(rho_hat_t, 5) = At(rho_hat_t, 4)

\* effective_sample_size2 has returned, from doubles that are numbers
Ess2Done ==
  /\ entry = "effective_sample_size2"
  /\ pc = "done"
  /\ n_samples >= 2
  /\ RGt(var_plus, Zero)

\* the first lag from `lag` on whose rho_hat is negative; n_samples if none is
RECURSIVE FirstNegative(_)
FirstNegative(lag) ==
  IF lag >= n_samples THEN n_samples
  ELSE IF RLt(Rho(lag), Zero) THEN lag
  ELSE FirstNegative(lag + 1)

\* C9: effective_sample_size2 sums exactly the rho_hat of lags 1..k-1, k the
\* first lag whose rho_hat is negative (n_samples if none): the scan stops at
\* the first negative value, which is not included, evaluates no later lag and
\* clamps nothing.
C9_ScanToFirstNegative ==
  Ess2Done =>
    LET k == FirstNegative(1)
        sum == RSum([lag \in 1..(k - 1) |-> Rho(lag)])
        ess == FromInt(Len(sims) * n_samples)
    IN  /\ rho_hat_t = [lag \in 1..(k - 1) |-> Rho(lag)]
        /\ t = IF k < n_samples THEN k + 1 ELSE n_samples
        /\ result.val = IF k > 1 THEN RDiv(ess, RAdd(One, RMul(FromInt(2), sum))) ELSE ess

\* C9 witness: the scan stored a value, met a negative one and left a lag
\* unevaluated
C9_StoppedEarly ==
  /\ Ess2Done
  /\ Len(rho_hat_t) >= 1
  /\ RLt(rho_hat, Zero)
  /\ t < n_samples

\* C10: for n_samples >= 2 and var_plus > 0, effective_sample_size2 returns a
\* value in (0, M*n_samples].
C10_Ess2Bounded ==
  Ess2Done =>
    /\ result.kind = "value"
    /\ RGt(result.val, Zero)
    /\ RLe(result.val, FromInt(Len(sims) * n_samples))

\* C10 witness: a result strictly between 0 and M*n_samples
C10_Ess2Below ==
  /\ Ess2Done
  /\ Len(rho_hat_t) >= 1
  /\ RGt(result.val, Zero)
  /\ RLt(result.val, FromInt(Len(sims) * n_samples))

\* C11: in effective_sample_size with an accepted parameter index, when the
\* minimum kept count n_samples is >= 2 every index used in the initial positive
\* and initial monotone loops is in bounds: rho_hat_t (n_samples elements) is
\* read and written at indexes < n_samples, acov[chain] is read at lags below
\* that chain's kept count, and the call ends with a value.  When n_samples < 2
\* the unsigned n_samples - 2 wraps around, so the loop test does not stop the
\* loop, and the accesses at lag 1 fall outside the vectors.
C11_IndexesInBounds ==
  (entry = "effective_sample_size" /\ IndexValid) =>
    /\ MinLength >= 2 =>
         /\ pc = "done" => result.kind = "value"
         /\ pc \in {"positive", "monotone", "done"} =>
              /\ n_samples = MinLength
              /\ Len(rho_hat_t) = n_samples
              /\ 1 <= max_t /\ max_t < n_samples
         /\ (pc = "positive" /\ PositiveTest) =>
              /\ t + 2 < n_samples
              /\ \A k \in 1..NChains : t + 2 < Len(Kept(k))
         /\ (pc = "monotone" /\ t <= max_t - 2) =>
              /\ 0 <= t - 1
              /\ t + 2 < n_samples
    /\ MinLength < 2 =>
         /\ BelowUnsigned(1, MinLength)
         /\ ~(1 < MinLength)
         /\ pc \in {"start", "done"}
         /\ pc = "done" => (n_samples = MinLength /\ result.kind \in OutOfBoundsRead)

\* C11 witness: both loops ran up to the last element of rho_hat_t, index
\* n_samples - 1, and the call returned a value
C11_LastIndexUsed ==
  /\ entry = "effective_sample_size"
  /\ pc = "done"
  /\ result.kind = "value"
  /\ max_t >= 5
  /\ max_t = n_samples - 1
  /\ t > max_t - 2

=============================================================================
